---- MODULE Spec2Model ----
(***************************************************************************)
(* Model of s2_orbit_geometry: the grid/orbit intersection pipeline of     *)
(* parse_kml.py (intersect_grid_orbits and the per-zone engine), the       *)
(* existence-filter index of available_tile_orbits.py and the join         *)
(* command of cli.py.                                                      *)
(*                                                                         *)
(* Geometry is one-dimensional: a geometry is a closed longitude interval  *)
(* <<lo, hi>> (empty when lo > hi).  WGS84 longitudes are counted in       *)
(* hundredths of a degree, projected coordinates in metres.                *)
(***************************************************************************)
EXTENDS Integers, Sequences, FiniteSets, TLC

VARIABLES
    grid_path,          \* rows of the grid KML: [Name, geometry]
    orbit_path,         \* rows of the orbit KML: [Relative_Orbit, geometry]
    filter_orbits,      \* the filter_orbits argument: None or tile id -> orbits
    geos_fault,         \* zone keys on whose geometry the engine raises GEOSException
    grid_gdf,           \* grid table after load_grid (and the tile-id filter)
    orbit_gdf,          \* orbit table after load_orbit_kml
    filter_orbits_df,   \* None or the (tile_id, relative_orbit) table
    grid_grouped,       \* the groupby: sorted sequence of [key, group]
    idx,                \* position of the for loop in grid_grouped
    yielded,            \* tables yielded so far, in order
    stdout,             \* lines printed so far
    joined_out,         \* what join_orbit_grid wrote, or None
    pc,                 \* "init", "loop", "returned", "written", "aborted"
                        \* (the generator raised), "concat_raised"
    index_path,         \* catalog rows: [mgrs_tile, product_id]
    chunksize,          \* chunk size of each of the two compared runs
    pos,                \* rows consumed by each run
    tile_orbits,        \* the mapping each run has accumulated
    cpc,                \* per run: "reading", "returned", "raised"
    uint8_cast,         \* what the numpy build does with a value over 255
    epsg_in,            \* arguments of the get_utm_epsg call: <<utm_zone, north>>
    epsg_out            \* its result, a string of digits (<<>> before the call)

pipeVars == <<grid_path, orbit_path, filter_orbits, geos_fault, grid_gdf,
              orbit_gdf, filter_orbits_df, grid_grouped, idx, yielded,
              stdout, joined_out, pc>>
catVars == <<index_path, chunksize, pos, tile_orbits, cpc, uint8_cast>>
epsgVars == <<epsg_in, epsg_out>>
vars == <<pipeVars, catVars, epsgVars>>

\* Python's None, and a value that is not None
None == [is_none |-> TRUE]
Some(v) == [is_none |-> FALSE, value |-> v]
IsNone(x) == x.is_none

----------------------------------------------------------------------------
(* Bounds of the model *)

MaxTiles == 3
MaxOrbits == 2
MaxRows == 3
MaxChunk == 3

----------------------------------------------------------------------------
(* Characters, strings as sequences of one-character strings *)

DigitChars == <<"0", "1", "2", "3", "4", "5", "6", "7", "8", "9">>

ascii_uppercase ==
    <<"A", "B", "C", "D", "E", "F", "G", "H", "I", "J", "K", "L", "M",
      "N", "O", "P", "Q", "R", "S", "T", "U", "V", "W", "X", "Y", "Z">>

Range(s) == {s[i] : i \in DOMAIN s}

IsDigit(c) == c \in Range(DigitChars)

DigitVal(c) == (CHOOSE i \in DOMAIN DigitChars : DigitChars[i] = c) - 1

\* int(s) of a string of decimal digits
RECURSIVE ParseInt(_)
ParseInt(s) ==
    IF s = <<>> THEN 0
    ELSE 10 * ParseInt(SubSeq(s, 1, Len(s) - 1)) + DigitVal(s[Len(s)])

\* (variant: the column is cast to the signed eight-bit type)
AsInt8(n) == ((n + 128) % 256) - 128

\* .astype(np.uint8): the value is stored in eight bits
AsUint8(n) == n % 256

----------------------------------------------------------------------------
(* Interval geometry *)

EmptyGeom == <<1, 0>>

IsEmptyGeom(g) == g[1] > g[2]

Min(a, b) == IF a <= b THEN a ELSE b
Max(a, b) == IF a >= b THEN a ELSE b

\* shapely intersects
Intersects(a, b) ==
    /\ ~IsEmptyGeom(a)
    /\ ~IsEmptyGeom(b)
    /\ a[1] <= b[2]
    /\ b[1] <= a[2]

\* shapely intersection
Intersection(a, b) ==
    IF Intersects(a, b) THEN <<Max(a[1], b[1]), Min(a[2], b[2])>> ELSE EmptyGeom

\* buffer(distance, cap_style=3): the square cap extends the ends too
Buffer(g, d) == IF IsEmptyGeom(g) THEN EmptyGeom ELSE <<g[1] - d, g[2] + d>>

----------------------------------------------------------------------------
(* Generic table helpers: a table is a sequence of rows *)

RECURSIVE ConcatAll(_)
ConcatAll(ss) == IF ss = <<>> THEN <<>> ELSE Head(ss) \o ConcatAll(Tail(ss))

\* the rows of s at the positions in I, in order
RECURSIVE Take(_, _, _)
Take(s, I, i) ==
    IF i > Len(s) THEN <<>>
    ELSE (IF i \in I THEN <<s[i]>> ELSE <<>>) \o Take(s, I, i + 1)

\* the elements of a finite set of <<zone, north>> keys in sorted order
KeyLess(a, b) == \/ a[1] < b[1]
                 \/ a[1] = b[1] /\ a[2] = FALSE /\ b[2] = TRUE

SortedKeys(S) ==
    CHOOSE s \in [1..Cardinality(S) -> S] :
        \A i, j \in 1..Cardinality(S) : i < j => KeyLess(s[i], s[j])

----------------------------------------------------------------------------
(* parse_kml.py: loaders *)

\* load_grid: utm_zone = tile_id.str[:2].astype(np.uint8)
UtmZone(tile_id) == AsUint8(ParseInt(SubSeq(tile_id, 1, 2)))

\* (variant: the slice of the alphabet starts one letter early)
UtmNorthFromM(tile_id) == tile_id[3] \in Range(SubSeq(ascii_uppercase, 13, 26))

\* load_grid: utm_north = tile_id.str[2].isin(ascii_uppercase[13:])
UtmNorth(tile_id) == tile_id[3] \in Range(SubSeq(ascii_uppercase, 14, 26))

\* load_grid: Name becomes tile_id; geometry is kept (its 2-D polygonal
\* part is the interval); the two derived columns are added
load_grid(path) ==
    [i \in DOMAIN path |->
        [tile_id   |-> path[i].Name,
         geometry  |-> path[i].geometry,
         utm_zone  |-> UtmZone(path[i].Name),
         utm_north |-> UtmNorth(path[i].Name)]]

\* load_orbit_kml: Relative_Orbit becomes relative_orbit, downcast to the
\* smallest unsigned type that holds every value (values are unchanged);
\* the frame's default index is the row number
load_orbit_kml(path) ==
    [i \in DOMAIN path |->
        [index          |-> i - 1,
         relative_orbit |-> path[i].Relative_Orbit,
         geometry       |-> path[i].geometry]]

----------------------------------------------------------------------------
(* parse_kml.py: get_utm_epsg and the reprojection it selects *)

RECURSIVE DecimalDigits(_)
DecimalDigits(n) ==
    IF n < 10 THEN <<DigitChars[n + 1]>>
    ELSE DecimalDigits(n \div 10) \o <<DigitChars[(n % 10) + 1]>>

\* the format spec :02 pads with zeros to a width of at least two
Format02(n) ==
    IF n < 10 THEN <<"0">> \o DecimalDigits(n) ELSE DecimalDigits(n)

\* (variant: the zone is formatted without the zero pad)
get_utm_epsg_unpadded(utm_zone, north) ==
    IF north THEN <<"3", "2", "6">> \o DecimalDigits(utm_zone)
    ELSE <<"3", "2", "7">> \o DecimalDigits(utm_zone)

get_utm_epsg(utm_zone, north) ==
    IF north THEN <<"3", "2", "6">> \o Format02(utm_zone)
    ELSE <<"3", "2", "7">> \o Format02(utm_zone)

MetresPerUnit == 1000
FalseEasting == 500000
SwathHalfWidth == 145000

\* central meridian of the UTM zone an EPSG code 326zz / 327zz names,
\* in hundredths of a degree
CentralMeridian(epsg) == (6 * (epsg % 100) - 183) * 100

\* to_crs(epsg=code) from WGS84
ToUtm(g, code) ==
    LET cm == CentralMeridian(ParseInt(code))
    IN  IF IsEmptyGeom(g) THEN EmptyGeom
        ELSE <<(g[1] - cm) * MetresPerUnit + FalseEasting,
               (g[2] - cm) * MetresPerUnit + FalseEasting>>

\* to_crs(epsg=4326) of a geometry held in the UTM system `code`
ToWgs84(g, code) ==
    LET cm == CentralMeridian(ParseInt(code))
    IN  IF IsEmptyGeom(g) THEN EmptyGeom
        ELSE <<(g[1] - FalseEasting) \div MetresPerUnit + cm,
               (g[2] - FalseEasting) \div MetresPerUnit + cm>>

----------------------------------------------------------------------------
(* parse_kml.py: intersect_grid_orbit_single_utm_zone *)

Return(v) == [raised |-> "no", value |-> v]
Raise(e) == [raised |-> e, value |-> <<>>]

\* box(*group_gdf.total_bounds)
TotalBoundsBox(group_gdf) ==
    LET los == {group_gdf[i].geometry[1] : i \in DOMAIN group_gdf}
        his == {group_gdf[i].geometry[2] : i \in DOMAIN group_gdf}
    IN  <<CHOOSE l \in los : \A m \in los : l <= m,
          CHOOSE h \in his : \A m \in his : h >= m>>

\* (variant: no bounding-box pre-filter and no clip)
LocalOrbitsUnfiltered(orbit_gdf_, bbox) == orbit_gdf_

\* orbit_gdf[orbit_gdf.intersects(bbox)], then geometry.intersection(bbox)
LocalOrbits(orbit_gdf_, bbox) ==
    LET keep == {i \in DOMAIN orbit_gdf_ : Intersects(orbit_gdf_[i].geometry, bbox)}
        kept == Take(orbit_gdf_, keep, 1)
    IN  [i \in DOMAIN kept |->
            [kept[i] EXCEPT !.geometry = Intersection(kept[i].geometry, bbox)]]

\* gpd.sjoin(local_grid, local_utm_swaths, op='intersects'), the merge that
\* brings geometry_swath in by index_right, and the intersection of the two
RECURSIVE SJoinRow(_, _, _)
SJoinRow(tile, swaths, j) ==
    IF j > Len(swaths) THEN <<>>
    ELSE (IF Intersects(tile.geometry, swaths[j].geometry)
          THEN <<[tile_id        |-> tile.tile_id,
                  geometry       |-> Intersection(tile.geometry, swaths[j].geometry),
                  utm_zone       |-> tile.utm_zone,
                  utm_north      |-> tile.utm_north,
                  index_right    |-> swaths[j].index,
                  relative_orbit |-> swaths[j].relative_orbit]>>
          ELSE <<>>) \o SJoinRow(tile, swaths, j + 1)

SJoin(local_grid, swaths) ==
    ConcatAll([i \in DOMAIN local_grid |-> SJoinRow(local_grid[i], swaths, 1)])

\* pd.merge(joined, filter_orbits_df, on=[tile_id, relative_orbit], how='inner')
RECURSIVE MergeRow(_, _, _)
MergeRow(row, fdf, j) ==
    IF j > Len(fdf) THEN <<>>
    ELSE (IF fdf[j].tile_id = row.tile_id
             /\ fdf[j].relative_orbit = row.relative_orbit
          THEN <<row>> ELSE <<>>) \o MergeRow(row, fdf, j + 1)

InnerMerge(joined, fdf) ==
    ConcatAll([i \in DOMAIN joined |-> MergeRow(joined[i], fdf, 1)])

\* `if filter_orbits_df:` : None is falsy; the truth value of a DataFrame
\* is ambiguous and bool() of it raises ValueError
TruthOf(df) == IF IsNone(df) THEN "False" ELSE "ValueError"

\* joined[keep_cols].to_crs(epsg=4326)
KeepCols(joined, epsg_code) ==
    [i \in DOMAIN joined |->
        [tile_id        |-> joined[i].tile_id,
         geometry       |-> ToWgs84(joined[i].geometry, epsg_code),
         utm_zone       |-> joined[i].utm_zone,
         utm_north      |-> joined[i].utm_north,
         relative_orbit |-> joined[i].relative_orbit]]

intersect_grid_orbit_single_utm_zone(group_gdf, orbit_gdf_, utm_zone, utm_north, filter_orbits_df_) ==
    LET bbox             == TotalBoundsBox(group_gdf)
        local_utm_orbits == LocalOrbits(orbit_gdf_, bbox)
        epsg_code        == get_utm_epsg(utm_zone, utm_north)
        local_grid       == [i \in DOMAIN group_gdf |->
                                [group_gdf[i] EXCEPT
                                    !.geometry = ToUtm(@, epsg_code)]]
        projected        == [i \in DOMAIN local_utm_orbits |->
                                [local_utm_orbits[i] EXCEPT
                                    !.geometry = ToUtm(@, epsg_code)]]
        local_utm_swaths == [i \in DOMAIN projected |->
                                [projected[i] EXCEPT
                                    !.geometry = Buffer(@, SwathHalfWidth)]]
        joined           == SJoin(local_grid, local_utm_swaths)
        truth            == TruthOf(filter_orbits_df_)
    IN  IF <<utm_zone, utm_north>> \in geos_fault
        THEN Raise("GEOSException")
        ELSE IF truth = "ValueError" THEN Raise("ValueError")
        ELSE IF truth = "True"
        THEN Return(KeepCols(InnerMerge(joined, filter_orbits_df_.value), epsg_code))
        ELSE Return(KeepCols(joined, epsg_code))

----------------------------------------------------------------------------
(* parse_kml.py: intersect_grid_orbits *)

\* `if filter_orbits:` : None and the empty dict are falsy
FilterGiven(f) == ~IsNone(f) /\ DOMAIN f.value # {}

\* grid_gdf[grid_gdf['tile_id'].isin(filter_orbits.keys())]
FilterGrid(gdf, f) ==
    Take(gdf, {i \in DOMAIN gdf : gdf[i].tile_id \in DOMAIN f}, 1)

\* the (tile_id, relative_orbit) rows of the filter, one per tile and orbit
FilterFrame(f) ==
    LET pairs == {<<t, o>> \in (DOMAIN f) \X (UNION {f[t] : t \in DOMAIN f}) :
                    o \in f[t]}
        order == CHOOSE s \in [1..Cardinality(pairs) -> pairs] :
                    \A i, j \in 1..Cardinality(pairs) : i # j => s[i] # s[j]
    IN  [i \in 1..Cardinality(pairs) |->
            [tile_id |-> order[i][1], relative_orbit |-> order[i][2]]]

KeyOf(row) == <<row.utm_zone, row.utm_north>>

\* (variant: the rows of a group are matched on the zone number alone)
GroupRowsByZone(gdf, key) ==
    Take(gdf, {i \in DOMAIN gdf : gdf[i].utm_zone = key[1]}, 1)

GroupRows(gdf, key) == Take(gdf, {i \in DOMAIN gdf : KeyOf(gdf[i]) = key}, 1)

\* grid_gdf.groupby(['utm_zone', 'utm_north']): one group per key that
\* occurs, in sorted key order
GroupBy(gdf) ==
    LET keys == SortedKeys({KeyOf(gdf[i]) : i \in DOMAIN gdf})
    IN  [i \in DOMAIN keys |-> [key |-> keys[i], group |-> GroupRows(gdf, keys[i])]]

\* (variant: only zone 1 is excluded)
IsDatelineZoneOnlyFirst(utm_zone) == utm_zone = 1

\* `if utm_zone == 1 or utm_zone == 60`
IsDatelineZone(utm_zone) == utm_zone = 1 \/ utm_zone = 60

\* (variant: no except clause)
CaughtNothing(exc) == FALSE

\* `except pygeos.GEOSException: pass`
Caught(exc) == exc = "GEOSException"

\* (variant: the zone's filter and clip are written back to the shared table)
OrbitsAfterZoneInPlace(orbit_gdf_, group_gdf) ==
    LocalOrbits(orbit_gdf_, TotalBoundsBox(group_gdf))

\* the orbit table after a zone was processed: the boolean-mask selection,
\* set_geometry and to_crs all return new frames, the argument is untouched
OrbitsAfterZone(orbit_gdf_, group_gdf) == orbit_gdf_

DatelineNotice == "Not implemented for UTM zones 1 and 60 due to dateline issues"

\* lines 24-42: load both tables, build the filter, group the grid
Start ==
    /\ pc = "init"
    /\ LET loaded == load_grid(grid_path)
           gdf    == IF FilterGiven(filter_orbits)
                     THEN FilterGrid(loaded, filter_orbits.value) ELSE loaded
       IN  /\ grid_gdf' = gdf
           /\ grid_grouped' = GroupBy(gdf)
    /\ orbit_gdf' = load_orbit_kml(orbit_path)
    /\ filter_orbits_df' = IF FilterGiven(filter_orbits)
                           THEN Some(FilterFrame(filter_orbits.value)) ELSE None
    /\ idx' = 1
    /\ pc' = "loop"
    /\ UNCHANGED <<grid_path, orbit_path, filter_orbits, geos_fault, yielded,
                   stdout, joined_out>>
    /\ UNCHANGED <<catVars, epsgVars>>

\* lines 44-59: one pass of the for loop
Iterate ==
    /\ pc = "loop"
    /\ idx <= Len(grid_grouped)
    /\ LET utm_zone  == grid_grouped[idx].key[1]
           utm_north == grid_grouped[idx].key[2]
           group_gdf == grid_grouped[idx].group
           r == intersect_grid_orbit_single_utm_zone(
                    group_gdf, orbit_gdf, utm_zone, utm_north, filter_orbits_df)
       IN  IF IsDatelineZone(utm_zone)
           THEN /\ stdout' = Append(stdout, DatelineNotice)
                /\ idx' = idx + 1
                /\ UNCHANGED <<yielded, pc, orbit_gdf>>
           ELSE /\ orbit_gdf' = OrbitsAfterZone(orbit_gdf, group_gdf)
                /\ IF r.raised = "no"
                   THEN /\ yielded' = Append(yielded, r.value)
                        /\ idx' = idx + 1
                        /\ UNCHANGED <<stdout, pc>>
                   ELSE IF Caught(r.raised)
                   THEN /\ idx' = idx + 1
                        /\ UNCHANGED <<yielded, stdout, pc>>
                   ELSE /\ pc' = "aborted"
                        /\ UNCHANGED <<yielded, stdout, idx>>
    /\ UNCHANGED <<grid_path, orbit_path, filter_orbits, geos_fault, grid_gdf,
                   filter_orbits_df, grid_grouped, joined_out>>
    /\ UNCHANGED <<catVars, epsgVars>>

\* the loop is exhausted: the generator returns
Exhaust ==
    /\ pc = "loop"
    /\ idx > Len(grid_grouped)
    /\ pc' = "returned"
    /\ UNCHANGED <<grid_path, orbit_path, filter_orbits, geos_fault, grid_gdf,
                   orbit_gdf, filter_orbits_df, grid_grouped, idx, yielded,
                   stdout, joined_out>>
    /\ UNCHANGED <<catVars, epsgVars>>

----------------------------------------------------------------------------
(* cli.py: join_orbit_grid, after the generator is drained *)

\* pd.concat(list(...)).to_parquet(out_path); pd.concat of an empty list
\* raises ValueError
join_orbit_grid ==
    /\ pc = "returned"
    /\ IF yielded = <<>>
       THEN /\ pc' = "concat_raised"
            /\ UNCHANGED joined_out
       ELSE /\ joined_out' = Some(ConcatAll(yielded))
            /\ pc' = "written"
    /\ UNCHANGED <<grid_path, orbit_path, filter_orbits, geos_fault, grid_gdf,
                   orbit_gdf, filter_orbits_df, grid_grouped, idx, yielded,
                   stdout>>
    /\ UNCHANGED <<catVars, epsgVars>>

----------------------------------------------------------------------------
(* Inputs of the pipeline *)

\* the grid KML the runs draw their tiles from, in file order
GridSource ==
    << [Name |-> <<"0", "1", "C", "A", "A">>, geometry |-> <<-18000, -17900>>],
       [Name |-> <<"3", "1", "H", "A", "A">>, geometry |-> <<100, 200>>],
       [Name |-> <<"3", "1", "U", "A", "A">>, geometry |-> <<0, 100>>],
       [Name |-> <<"3", "1", "U", "B", "B">>, geometry |-> <<300, 400>>],
       [Name |-> <<"6", "0", "X", "A", "A">>, geometry |-> <<17400, 17500>>] >>

GridInputs ==
    {Take(GridSource, I, 1) :
        I \in {J \in SUBSET DOMAIN GridSource : Cardinality(J) <= MaxTiles}}

OrbitNumbers == {22, 65}

\* ground tracks: two that cross one meridian, one that spans five degrees
Tracks == {<<0, 0>>, <<500, 500>>, <<0, 500>>}

OrbitRows == [Relative_Orbit : OrbitNumbers, geometry : Tracks]

OrbitInputs == UNION {[1..n -> OrbitRows] : n \in 0..MaxOrbits}

FilterTiles == {GridSource[3].Name, GridSource[5].Name}

FilterOrbitSets == {{22}}

FilterInputs ==
    {None} \cup {Some(f) : f \in UNION {[S -> FilterOrbitSets] : S \in SUBSET FilterTiles}}

IdleCat ==
    /\ index_path = <<>>
    /\ chunksize = <<>>
    /\ pos = <<>>
    /\ tile_orbits = <<>>
    /\ cpc = <<>>
    /\ uint8_cast = "wrap"

IdleEpsg ==
    /\ epsg_in = <<>>
    /\ epsg_out = <<>>

IdlePipe ==
    /\ grid_path = <<>>
    /\ orbit_path = <<>>
    /\ filter_orbits = None
    /\ geos_fault = {}
    /\ grid_gdf = <<>>
    /\ orbit_gdf = <<>>
    /\ filter_orbits_df = None
    /\ grid_grouped = <<>>
    /\ idx = 0
    /\ yielded = <<>>
    /\ stdout = <<>>
    /\ joined_out = None
    /\ pc = "idle"

Init ==
    /\ grid_path \in GridInputs
    /\ orbit_path \in OrbitInputs
    /\ filter_orbits \in FilterInputs
    /\ geos_fault \in SUBSET {k \in {KeyOf(load_grid(grid_path)[i]) :
                                        i \in DOMAIN grid_path} :
                                 k[1] # 1 /\ k[1] # 60}
    /\ grid_gdf = <<>>
    /\ orbit_gdf = <<>>
    /\ filter_orbits_df = None
    /\ grid_grouped = <<>>
    /\ idx = 0
    /\ yielded = <<>>
    /\ stdout = <<>>
    /\ joined_out = None
    /\ pc = "init"
    /\ IdleCat
    /\ IdleEpsg

Next == Start \/ Iterate \/ Exhaust \/ join_orbit_grid

Spec == Init /\ [][Next]_vars

----------------------------------------------------------------------------
(* available_tile_orbits.py: find_available_orbit_tiles *)

NaN == <<"N", "a", "N">>

\* orbit_regex = r'_R(?P<orbit>\d{3})_' matches at position i
OrbitRegexAt(pid, i) ==
    /\ i + 5 <= Len(pid)
    /\ pid[i] = "_"
    /\ pid[i + 1] = "R"
    /\ IsDigit(pid[i + 2]) /\ IsDigit(pid[i + 3]) /\ IsDigit(pid[i + 4])
    /\ pid[i + 5] = "_"

\* str.extract(orbit_regex)['orbit']: the group of the first match, or NaN
StrExtract(pid) ==
    LET hits == {i \in DOMAIN pid : OrbitRegexAt(pid, i)}
    IN  IF hits = {} THEN NaN
        ELSE LET i == CHOOSE h \in hits : \A g \in hits : h <= g
             IN  SubSeq(pid, i + 2, i + 4)

\* the chunk with its orbit column: .astype(np.uint8) of the extracted
\* strings raises on NaN; a value over 255 wraps or raises with the build
ChunkCastRaises(chunk) ==
    \E i \in DOMAIN chunk :
        LET e == StrExtract(chunk[i].product_id)
        IN  \/ e = NaN
            \/ uint8_cast = "raise" /\ ParseInt(e) > 255

OrbitColumn(chunk) ==
    [i \in DOMAIN chunk |->
        [mgrs_tile |-> chunk[i].mgrs_tile,
         orbit     |-> AsUint8(ParseInt(StrExtract(chunk[i].product_id)))]]

\* (variant: duplicates are judged on the tile column alone)
DropDuplicatesByTile(df) ==
    Take(df, {i \in DOMAIN df :
                \A j \in 1..(i - 1) : df[j].mgrs_tile # df[i].mgrs_tile}, 1)

\* df.drop_duplicates(): the first occurrence of every row is kept
DropDuplicates(df) ==
    Take(df, {i \in DOMAIN df : \A j \in 1..(i - 1) : df[j] # df[i]}, 1)

\* (variant: the tile's set is started afresh at every row)
AddRowOverwrite(d, row) ==
    [t \in DOMAIN d \cup {row.mgrs_tile} |->
        IF t = row.mgrs_tile THEN {row.orbit} ELSE d[t]]

\* tile_orbits[t] = tile_orbits.get(t, set()); tile_orbits[t].add(orbit)
AddRow(d, row) ==
    LET had == IF row.mgrs_tile \in DOMAIN d THEN d[row.mgrs_tile] ELSE {}
    IN  [t \in DOMAIN d \cup {row.mgrs_tile} |->
            IF t = row.mgrs_tile THEN had \cup {row.orbit} ELSE d[t]]

RECURSIVE AddRows(_, _)
AddRows(d, rows) ==
    IF rows = <<>> THEN d ELSE AddRows(AddRow(d, Head(rows)), Tail(rows))

Runs == {1, 2}

\* the next chunk pd.read_csv(index_path, chunksize=...) hands to run r
NextChunk(r) ==
    SubSeq(index_path, pos[r] + 1, Min(pos[r] + chunksize[r], Len(index_path)))

\* one pass of `for df in pd.read_csv(...)` in run r
ReadChunk(r) ==
    /\ cpc[r] = "reading"
    /\ pos[r] < Len(index_path)
    /\ \A q \in Runs : q < r => cpc[q] # "reading"
    /\ LET chunk == NextChunk(r)
       IN  IF ChunkCastRaises(chunk)
           THEN /\ cpc' = [cpc EXCEPT ![r] = "raised"]
                /\ UNCHANGED <<pos, tile_orbits>>
           ELSE /\ tile_orbits' = [tile_orbits EXCEPT
                      ![r] = AddRows(@, DropDuplicates(OrbitColumn(chunk)))]
                /\ pos' = [pos EXCEPT ![r] = @ + Len(chunk)]
                /\ UNCHANGED cpc
    /\ UNCHANGED <<index_path, chunksize, uint8_cast>>
    /\ UNCHANGED <<pipeVars, epsgVars>>

\* the catalog is exhausted: return tile_orbits
ReturnTileOrbits(r) ==
    /\ cpc[r] = "reading"
    /\ pos[r] = Len(index_path)
    /\ \A q \in Runs : q < r => cpc[q] # "reading"
    /\ cpc' = [cpc EXCEPT ![r] = "returned"]
    /\ UNCHANGED <<index_path, chunksize, pos, tile_orbits, uint8_cast>>
    /\ UNCHANGED <<pipeVars, epsgVars>>

\* product ids of the catalog: orbits 22, 44 and 300, and one without the marker
ProductIds ==
    { <<"_", "R", "0", "2", "2", "_">>,
      <<"_", "R", "0", "4", "4", "_">>,
      <<"_", "R", "3", "0", "0", "_">>,
      <<"_", "N", "0", "2", "1", "3">> }

CatalogRows ==
    [mgrs_tile : {GridSource[3].Name, GridSource[4].Name}, product_id : ProductIds]

CatalogInputs == UNION {[1..n -> CatalogRows] : n \in 0..MaxRows}

InitCatalog ==
    /\ index_path \in CatalogInputs
    /\ chunksize \in {c \in [Runs -> 1..MaxChunk] : c[1] <= c[2]}
    /\ pos = [r \in Runs |-> 0]
    /\ tile_orbits = [r \in Runs |-> <<>>]
    /\ cpc = [r \in Runs |-> "reading"]
    /\ uint8_cast \in {"wrap", "raise"}
    /\ IdlePipe
    /\ IdleEpsg

NextCatalog == \E r \in Runs : ReadChunk(r) \/ ReturnTileOrbits(r)

SpecCatalog == InitCatalog /\ [][NextCatalog]_vars

----------------------------------------------------------------------------
(* get_utm_epsg on its own *)

CallEpsg ==
    /\ epsg_out = <<>>
    /\ epsg_out' = get_utm_epsg(epsg_in[1], epsg_in[2])
    /\ UNCHANGED epsg_in
    /\ UNCHANGED <<pipeVars, catVars>>

InitEpsg ==
    /\ epsg_in \in (1..60) \X BOOLEAN
    /\ epsg_out = <<>>
    /\ IdlePipe
    /\ IdleCat

SpecEpsg == InitEpsg /\ [][CallEpsg]_vars

----------------------------------------------------------------------------
(* Properties of the pipeline *)

Started == pc # "init" /\ pc # "idle"

\* the groups the for loop has gone past
Passed == {i \in DOMAIN grid_grouped : i < idx}

\* the passed groups that were neither excluded nor hit by a geometry fault,
\* in processing order: the j-th yielded table belongs to the j-th of them
Processed ==
    Take([i \in DOMAIN grid_grouped |-> i],
         {i \in Passed : /\ ~IsDatelineZone(grid_grouped[i].key[1])
                         /\ grid_grouped[i].key \notin geos_fault}, 1)

AllRows(tables) == {tables[j][k] : <<j, k>> \in
                       {p \in (DOMAIN tables) \X (0..(MaxTiles + 1) * (MaxOrbits + 1)) :
                           p[2] \in DOMAIN tables[p[1]]}}

\* C1: when an existence filter is supplied, every yielded coverage record
\* has a (tile_id, relative_orbit) pair that is present in the filter
C1_OutputWithinFilter ==
    ~IsNone(filter_orbits) =>
        \A row \in AllRows(yielded) :
            /\ row.tile_id \in DOMAIN filter_orbits.value
            /\ row.relative_orbit \in filter_orbits.value[row.tile_id]

\* C2: no yielded record has utm_zone 1 or 60, and every zone-1 or zone-60
\* group the loop has gone past has printed one notice and yielded no table
C2_DatelineZonesSkippedWithNotice ==
    Started =>
        LET dateline == {i \in Passed : grid_grouped[i].key[1] \in {1, 60}}
        IN  /\ \A row \in AllRows(yielded) : row.utm_zone \notin {1, 60}
            /\ Len(stdout) = Cardinality(dateline)
            /\ \A n \in DOMAIN stdout : stdout[n] = DatelineNotice
            /\ Len(yielded) <= Cardinality(Passed \ dateline)

C2_Witness ==
    /\ pc = "returned"
    /\ Len(stdout) = 2
    /\ AllRows(yielded) # {}

\* C3: a geometry fault in a zone never makes the generator raise; the
\* faulting zone yields nothing and every other passed zone that is not
\* excluded has yielded its table, wherever the faulting zone comes in the
\* order; and the loop goes past every group before the generator returns
C3_FaultSkipsOnlyItsZone ==
    Started =>
        /\ Len(yielded) = Len(Processed)
        /\ \A j \in DOMAIN yielded :
              \A k \in DOMAIN yielded[j] :
                  <<yielded[j][k].utm_zone, yielded[j][k].utm_north>>
                      = grid_grouped[Processed[j]].key
        /\ (pc = "aborted" => grid_grouped[idx].key \notin geos_fault)
        /\ (pc = "returned" => Passed = DOMAIN grid_grouped)

C3_Witness ==
    /\ pc = "returned"
    /\ Len(grid_grouped) >= 2
    /\ grid_grouped[1].key \in geos_fault
    /\ Len(yielded) = 1
    /\ yielded[1] # <<>>

\* C4: at the end of a run the reported skipped zones are exactly the zone
\* groups that produced no result table
C4_EverySkippedZoneReported ==
    pc = "returned" =>
        Len(stdout) = Cardinality(DOMAIN grid_grouped) - Len(yielded)

\* C5: the zone groups partition the (filtered) tile table: every tile is
\* in exactly one group, no group is empty, the groups hold nothing else,
\* and a tile's group is the one its id names
C5_ZoneGroupsPartitionTiles ==
    Started =>
        /\ \A i \in DOMAIN grid_gdf :
              Cardinality({g \in DOMAIN grid_grouped :
                              grid_gdf[i] \in Range(grid_grouped[g].group)}) = 1
        /\ \A g \in DOMAIN grid_grouped :
              /\ grid_grouped[g].group # <<>>
              /\ Range(grid_grouped[g].group) \subseteq Range(grid_gdf)
              /\ \A row \in Range(grid_grouped[g].group) :
                    grid_grouped[g].key =
                        <<UtmZone(row.tile_id), UtmNorth(row.tile_id)>>
        /\ \A g, h \in DOMAIN grid_grouped :
              g # h => grid_grouped[g].key # grid_grouped[h].key

C5_Witness ==
    /\ pc = "loop"
    /\ Len(grid_grouped) = 2
    /\ grid_grouped[1].key[1] = grid_grouped[2].key[1]
    /\ Len(grid_grouped[2].group) = 2

\* C8: an orbit whose ground-tracks all lie outside a zone's bounding box
\* has no record in that zone's table
C8_TrackOutsideBoxYieldsNothing ==
    Started =>
        \A j \in DOMAIN yielded :
            LET group == grid_grouped[Processed[j]].group
                bbox  == TotalBoundsBox(group)
                inside == {orbit_path[i].Relative_Orbit : i \in
                              {n \in DOMAIN orbit_path :
                                  Intersects(orbit_path[n].geometry, bbox)}}
            IN  \A k \in DOMAIN yielded[j] :
                    yielded[j][k].relative_orbit \in inside

\* a track outside the box of the single tile 31UBB, yet within the swath
\* half-width of it, and another track inside the box
C8_Witness ==
    /\ pc = "returned"
    /\ Len(grid_gdf) = 1
    /\ grid_gdf[1].geometry = <<300, 400>>
    /\ Len(orbit_path) = 2
    /\ orbit_path[1] = [Relative_Orbit |-> 22, geometry |-> <<500, 500>>]
    /\ orbit_path[2] = [Relative_Orbit |-> 65, geometry |-> <<0, 500>>]
    /\ Len(yielded) = 1
    /\ Len(yielded[1]) = 1
    /\ yielded[1][1].relative_orbit = 65

----------------------------------------------------------------------------
(* Properties of find_available_orbit_tiles *)

\* the orbit column value of a catalog row
OrbitOf(row) == AsUint8(ParseInt(StrExtract(row.product_id)))

\* C6: two runs over the same catalog with different chunk sizes end the
\* same way, and when they return, they return the same mapping
C6_ChunkSizeIndependent ==
    (\A r \in Runs : cpc[r] # "reading") =>
        /\ cpc[1] = cpc[2]
        /\ (cpc[1] = "returned" => tile_orbits[1] = tile_orbits[2])

\* a repeated row falls into one chunk in run 2 and into two in run 1
C6_Witness ==
    /\ cpc[1] = "returned" /\ cpc[2] = "returned"
    /\ chunksize[1] = 1 /\ chunksize[2] = 2
    /\ Len(index_path) = 3
    /\ index_path[1] = index_path[2]
    /\ index_path[3].mgrs_tile = index_path[1].mgrs_tile
    /\ index_path[3] # index_path[1]

\* C7: the returned mapping holds orbit o for tile t exactly when a catalog
\* row has tile t and orbit o, and has the key t exactly when a row has t
C7_NoPairDroppedOrInvented ==
    \A r \in Runs :
        cpc[r] = "returned" =>
            /\ DOMAIN tile_orbits[r] =
                  {index_path[i].mgrs_tile : i \in DOMAIN index_path}
            /\ \A t \in DOMAIN tile_orbits[r] :
                  tile_orbits[r][t] =
                      {OrbitOf(index_path[i]) : i \in
                          {n \in DOMAIN index_path : index_path[n].mgrs_tile = t}}

C7_Witness ==
    /\ cpc[2] = "returned"
    /\ chunksize[2] = 2
    /\ Len(index_path) = 3
    /\ Cardinality(DOMAIN tile_orbits[2]) = 2
    /\ \E t \in DOMAIN tile_orbits[2] : Cardinality(tile_orbits[2][t]) = 2

----------------------------------------------------------------------------
(* Properties of get_utm_epsg *)

\* C9: for zones 1..60 the code is 32600 + zone in the north and
\* 32700 + zone in the south, and no other (zone, hemisphere) has it
C9_EpsgIsBasePlusZone ==
    epsg_out # <<>> =>
        /\ Len(epsg_out) = 5
        /\ ParseInt(epsg_out) =
              (IF epsg_in[2] THEN 32600 ELSE 32700) + epsg_in[1]
        /\ \A other \in (1..60) \X BOOLEAN :
              other # epsg_in => get_utm_epsg(other[1], other[2]) # epsg_out

C9_Witness ==
    /\ epsg_in = <<5, FALSE>>
    /\ epsg_out = <<"3", "2", "7", "0", "5">>

----------------------------------------------------------------------------
(* Properties of load_orbit_kml *)

\* C11: the table load_orbit_kml returns has one ground-track per orbit
\* number, and the concatenated output has at most one record per
\* (tile id, orbit number) pair
C11_OneTrackPerOrbit ==
    Started =>
        /\ \A i, j \in DOMAIN orbit_gdf :
              i # j => orbit_gdf[i].relative_orbit # orbit_gdf[j].relative_orbit
        /\ (~IsNone(joined_out) =>
              \A i, j \in DOMAIN joined_out.value :
                  i # j => <<joined_out.value[i].tile_id,
                             joined_out.value[i].relative_orbit>>
                           # <<joined_out.value[j].tile_id,
                               joined_out.value[j].relative_orbit>>)

----------------------------------------------------------------------------
(* The orbit cast of find_available_orbit_tiles over every three-digit field *)

\* a one-row catalog whose product id carries the digits d1 d2 d3 after _R
InitOrbitCast ==
    /\ index_path \in
          {<<[mgrs_tile  |-> GridSource[3].Name,
              product_id |-> <<"_", "R", DigitChars[d[1] + 1], DigitChars[d[2] + 1],
                               DigitChars[d[3] + 1], "_">>]>> :
              d \in (0..9) \X (0..9) \X (0..9)}
    /\ chunksize = [r \in Runs |-> 1]
    /\ pos = [r \in Runs |-> 0]
    /\ tile_orbits = [r \in Runs |-> <<>>]
    /\ cpc = [r \in Runs |-> "reading"]
    /\ uint8_cast \in {"wrap", "raise"}
    /\ IdlePipe
    /\ IdleEpsg

SpecOrbitCast == InitOrbitCast /\ [][NextCatalog]_vars

\* the decimal value of the three digits after the _R marker of row i
MarkedValue(i) ==
    LET pid == index_path[i].product_id
    IN  100 * DigitVal(pid[3]) + 10 * DigitVal(pid[4]) + DigitVal(pid[5])

\* C12 (as claimed): for every three-digit value 000..999 the stored orbit
\* is the decimal value of the digits; the cast never changes it
C12_CastKeepsEveryValue ==
    \A r \in Runs :
        cpc[r] # "reading" =>
            /\ cpc[r] = "returned"
            /\ tile_orbits[r][index_path[1].mgrs_tile] = {MarkedValue(1)}

\* C12 (amended): for every three-digit value 000..255 the stored orbit is
\* the decimal value of the digits; a value 256..999 is not kept: the run
\* raises, or stores the value modulo 256, which is another value
C12_CastKeepsValuesUpTo255 ==
    \A r \in Runs :
        LET v == MarkedValue(1)
            t == index_path[1].mgrs_tile
        IN  /\ (cpc[r] = "returned" /\ v <= 255 => tile_orbits[r][t] = {v})
            /\ (cpc[r] = "returned" /\ v > 255 =>
                   /\ uint8_cast = "wrap"
                   /\ tile_orbits[r][t] = {v - 256 * (v \div 256)}
                   /\ v \notin tile_orbits[r][t])
            /\ (cpc[r] = "raised" => uint8_cast = "raise" /\ v > 255)

C12_Witness ==
    /\ cpc[1] = "returned"
    /\ MarkedValue(1) = 255
    /\ tile_orbits[1][index_path[1].mgrs_tile] = {255}

----------------------------------------------------------------------------
(* The pipeline over every zone number and every band character *)

\* third characters of a tile id: the capital letters, a small letter, a digit
BandChars == Range(ascii_uppercase) \cup {"n", "7"}

\* a grid of one tile whose id starts with a zone 01..60 and a band
\* character, crossed by the track of orbit 22
InitGrid ==
    /\ grid_path \in
          {<<[Name     |-> Format02(z) \o <<c, "A", "A">>,
              geometry |-> <<0, 100>>]>> : <<z, c>> \in (1..60) \X BandChars}
    /\ orbit_path = <<[Relative_Orbit |-> 22, geometry |-> <<0, 0>>]>>
    /\ filter_orbits = None
    /\ geos_fault = {}
    /\ grid_gdf = <<>>
    /\ orbit_gdf = <<>>
    /\ filter_orbits_df = None
    /\ grid_grouped = <<>>
    /\ idx = 0
    /\ yielded = <<>>
    /\ stdout = <<>>
    /\ joined_out = None
    /\ pc = "init"
    /\ IdleCat
    /\ IdleEpsg

SpecGrid == InitGrid /\ [][Next]_vars

NorthLetters ==
    {"N", "O", "P", "Q", "R", "S", "T", "U", "V", "W", "X", "Y", "Z"}

\* the two attributes a row carries are the ones its tile id spells
DerivedFromId(row) ==
    /\ row.utm_north = (row.tile_id[3] \in NorthLetters)
    /\ row.utm_zone = 10 * DigitVal(row.tile_id[1]) + DigitVal(row.tile_id[2])

\* C13: utm_north is true exactly when the third character of the tile id
\* is one of N..Z, utm_zone is the integer value of the first two
\* characters, and every grid row, group row, yielded record and written
\* record carries them unchanged
C13_ZoneAndHemisphereFromId ==
    Started =>
        /\ \A row \in Range(grid_gdf) :
              /\ row.tile_id \in {grid_path[i].Name : i \in DOMAIN grid_path}
              /\ DerivedFromId(row)
        /\ \A g \in DOMAIN grid_grouped :
              \A row \in Range(grid_grouped[g].group) : DerivedFromId(row)
        /\ \A row \in AllRows(yielded) : DerivedFromId(row)
        /\ (~IsNone(joined_out) =>
              \A row \in Range(joined_out.value) : DerivedFromId(row))

C13_Witness ==
    /\ pc = "written"
    /\ Len(joined_out.value) = 1
    /\ joined_out.value[1].tile_id = <<"0", "7", "N", "A", "A">>
    /\ joined_out.value[1].utm_zone = 7
    /\ joined_out.value[1].utm_north = TRUE

====
